---- MODULE Spec2Model ----
(***************************************************************************)
(* Verification model of the blog recommendation / ranking subsystem:      *)
(*   src/app/services/recommendation_service.py  BlogRecommendationService *)
(*   src/app/routers/blogs.py                    search_blogs              *)
(*                                                                         *)
(* Text is modelled as a sequence of one-character strings.  Scores are    *)
(* exact rationals in units of 1/Scale; Python floats are read as the real *)
(* numbers they denote.  Time is counted in ticks, TicksPerDay to the day. *)
(***************************************************************************)
EXTENDS Integers, Sequences, FiniteSets, TLC

VARIABLES
    self_stop_words,    \* the service instance: its only attribute, self.stop_words
    blog,               \* engagement scoring: the blog dict handed to the scorer
    eng_now,            \* engagement scoring: the value datetime.now() returns
    eng_pc,             \* engagement scoring: "pending" | "scored"
    eng_score,          \* engagement scoring: the score returned last
    eng_first,          \* engagement scoring: likes_count and score of the first call
    sim_args,           \* content similarity: the arguments of the call
    sim_pc,             \* content similarity: "pending" | "returned"
    sim_result,         \* content similarity: what the call returned or raised
    sim_via,            \* content similarity: the statement the call left through
    sim_keyword,        \* content similarity: result of a direct call of the fallback
    norm_input,         \* normalizer: the value handed to preprocess_text
    norm_pc,            \* normalizer: "pending" | "once" | "twice" | "raised"
    norm_out,           \* normalizer: the text the call returned
    norm_again,         \* normalizer: the text a second call returned for norm_out
    pure_args,          \* repeated scoring: interests, blog, clock value and caller
    pure_first,         \* repeated scoring: the scores of the first call, if made
    pure_second,        \* repeated scoring: the scores of the repeated call, if made
    pure_between,       \* repeated scoring: the number of other calls in between
    conc_db,            \* concurrent requests: the blogs collection
    conc_req,           \* concurrent requests: the locals of each request
    conc_writes,        \* concurrent requests: the number of writes made so far
    like_docs,          \* likes: the documents of the likes collection for the blog
    like_next_id,       \* likes: the _id the next insert_one gets
    blog_likes_count,   \* likes: the blog's likes_count field
    like_req,           \* likes: the locals of each request in flight
    auth_stored,        \* auth: the refresh_token field of the user's document
    auth_now,           \* auth: the wall clock, in seconds
    auth_issued,        \* auth: the refresh tokens created so far
    auth_latest,        \* auth: the refresh token created last
    auth_spent,         \* auth: the tokens presented to a /refresh that succeeded
    auth_logged_out,    \* auth: /logout has run and no /login since
    auth_req,           \* auth: the locals of each /refresh request
    db_blogs,           \* storage: the blogs collection, in natural order
    db_user_interests,  \* storage: the caller's user_interests document, if any
    path,               \* ranking request: "service" | "search"
    params,             \* ranking request: the handler's arguments
    clock,              \* ranking request: the wall clock
    pc,                 \* ranking request: position in the handler
    req_interests,      \* ranking request: the user_interests in use
    all_blogs,          \* ranking request: the documents fetched
    recommendations,    \* ranking request: the scored items
    result              \* ranking request: what the handler returned

eng_vars == <<blog, eng_now, eng_pc, eng_score, eng_first>>
sim_vars == <<sim_args, sim_pc, sim_result, sim_via, sim_keyword>>
norm_vars == <<norm_input, norm_pc, norm_out, norm_again>>
pure_vars == <<pure_args, pure_first, pure_second, pure_between>>
self_vars == <<self_stop_words>>
conc_vars == <<conc_db, conc_req, conc_writes>>
like_vars == <<like_docs, like_next_id, blog_likes_count, like_req>>
auth_vars == <<auth_stored, auth_now, auth_issued, auth_latest, auth_spent, auth_logged_out, auth_req>>
site_vars == <<conc_vars, like_vars, auth_vars>>
rank_vars == <<db_blogs, db_user_interests, path, params, clock, pc, req_interests,
               all_blogs, recommendations, result>>
vars == <<self_vars, eng_vars, sim_vars, norm_vars, pure_vars, rank_vars, site_vars>>

----------------------------------------------------------------------------
(* Python values *)

\* Optional[T]: None is the empty set, a value v is {v}.
None == {}
Some(v) == {v}
TheValue(o) == CHOOSE v \in o : TRUE

\* dict.get(key, default)
Get(d, key, default) == IF key \in DOMAIN d THEN d[key] ELSE default

Min(a, b) == IF a <= b THEN a ELSE b

\* A datetime (ticks since an epoch) and a value that is no datetime.
Datetime(t) == [type |-> "datetime", ticks |-> t]
NotADatetime == [type |-> "str", ticks |-> 0]

\* timedelta.days: whole days, rounded towards minus infinity.
TicksPerDay == 2
Days(ticks) == ticks \div TicksPerDay

\* Scores are integers in units of 1/Scale: 0.01 is Hundredth, 1.0 is Scale.
Hundredth == 6 * 10
Scale == 100 * Hundredth

----------------------------------------------------------------------------
(* Strings *)

LowerLetters ==
    <<"a","b","c","d","e","f","g","h","i","j","k","l","m","n","o","p","q","r","s","t","u","v","w","x","y","z">>
UpperLetters ==
    <<"A","B","C","D","E","F","G","H","I","J","K","L","M","N","O","P","Q","R","S","T","U","V","W","X","Y","Z">>

Whitespace == {" ", "\t", "\n"}

IsLetter(c) ==
    \E i \in 1..Len(LowerLetters) : c = LowerLetters[i] \/ c = UpperLetters[i]

lower_char(c) ==
    IF \E i \in 1..Len(UpperLetters) : c = UpperLetters[i]
    THEN LowerLetters[CHOOSE i \in 1..Len(UpperLetters) : c = UpperLetters[i]]
    ELSE c

\* str.lower()
lower(s) == [i \in 1..Len(s) |-> lower_char(s[i])]

\* The fields of s between the characters of seps, the empty ones included.
Fields(s, seps) ==
    LET at == {i \in 1..Len(s) : s[i] \in seps}
        n == Cardinality(at)
        Sep(k) == IF k = 0 THEN 0
                  ELSE IF k = n + 1 THEN Len(s) + 1
                  ELSE CHOOSE i \in at : Cardinality({j \in at : j <= i}) = k
    IN  [k \in 1..(n + 1) |-> SubSeq(s, Sep(k - 1) + 1, Sep(k) - 1)]

\* str.split(): the maximal runs of non-whitespace characters.
split(s) == SelectSeq(Fields(s, Whitespace), LAMBDA w : w # <<>>)

\* str.split(','): every field between commas, the empty ones included.
split_comma(s) == Fields(s, {","})

RECURSIVE strip(_)
strip(s) ==
    IF s = <<>> THEN s
    ELSE IF Head(s) \in Whitespace THEN strip(Tail(s))
    ELSE IF s[Len(s)] \in Whitespace THEN strip(SubSeq(s, 1, Len(s) - 1))
    ELSE s

\* sep.join(words)
RECURSIVE join(_, _)
join(sep, words) ==
    IF words = <<>> THEN <<>>
    ELSE IF Len(words) = 1 THEN words[1]
    ELSE words[1] \o sep \o join(sep, Tail(words))

Space == <<" ">>

\* the set of a list's items
ToSet(seq) == {seq[i] : i \in 1..Len(seq)}

----------------------------------------------------------------------------
(* BlogRecommendationService *)

stop_words ==
    { <<"a">>, <<"a","n">>, <<"a","n","d">>, <<"a","r","e">>, <<"a","s">>, <<"a","t">>,
      <<"b","e">>, <<"b","y">>, <<"f","o","r">>, <<"f","r","o","m">>, <<"h","a","s">>,
      <<"h","e">>, <<"i","n">>, <<"i","s">>, <<"i","t">>, <<"i","t","s">>, <<"o","f">>,
      <<"o","n">>, <<"t","h","a","t">>, <<"t","h","e">>, <<"t","o">>, <<"w","a","s">>,
      <<"w","i","l","l">>, <<"w","i","t","h">>, <<"t","h","i","s">>, <<"b","u","t">>,
      <<"t","h","e","y">>, <<"h","a","v","e">>, <<"h","a","d">>, <<"w","h","a","t">>,
      <<"s","a","i","d">>, <<"e","a","c","h">>, <<"w","h","i","c","h">>, <<"s","h","e">>,
      <<"d","o">>, <<"h","o","w">>, <<"t","h","e","i","r">>, <<"i","f">>, <<"u","p">>,
      <<"o","u","t">>, <<"m","a","n","y">>, <<"t","h","e","n">>, <<"t","h","e","m">>,
      <<"t","h","e","s","e">>, <<"s","o">>, <<"s","o","m","e">>, <<"h","e","r">>,
      <<"w","o","u","l","d">>, <<"m","a","k","e">>, <<"l","i","k","e">>, <<"i","n","t","o">>,
      <<"h","i","m">>, <<"t","i","m","e">>, <<"t","w","o">>, <<"m","o","r","e">>, <<"g","o">>,
      <<"n","o">>, <<"w","a","y">>, <<"c","o","u","l","d">>, <<"m","y">>, <<"t","h","a","n">>,
      <<"f","i","r","s","t">>, <<"b","e","e","n">>, <<"c","a","l","l">>, <<"w","h","o">>,
      <<"o","i","l">>, <<"s","i","t">>, <<"n","o","w">>, <<"f","i","n","d">>, <<"d","o","w","n">>,
      <<"d","a","y">>, <<"d","i","d">>, <<"g","e","t">>, <<"c","o","m","e">>, <<"m","a","d","e">>,
      <<"m","a","y">>, <<"p","a","r","t">> }

\* __init__, and the module's one instance: self.stop_words is the set above.
ServiceInit == self_stop_words = stop_words

\* re.sub(r'[^a-zA-Z\s]', '', text)
StripNonLetters(text) == SelectSeq(text, LAMBDA c : IsLetter(c) \/ c \in Whitespace)

\* Mutant: the words are filtered before the non-letters are deleted.
preprocess_text_filter_first(text) ==
    IF text = <<>>
    THEN <<>>
    ELSE LET words == SelectSeq(split(lower(text)),
                                LAMBDA word : word \notin self_stop_words /\ Len(word) > 2)
         IN  StripNonLetters(join(Space, words))

\* Mutant: a character that is no letter is replaced by a space.
preprocess_text_separating(text) ==
    IF text = <<>>
    THEN <<>>
    ELSE LET lowered == lower(text)
             spaced == [i \in 1..Len(lowered) |->
                           IF IsLetter(lowered[i]) \/ lowered[i] \in Whitespace
                           THEN lowered[i] ELSE " "]
             words == SelectSeq(split(spaced),
                                LAMBDA word : word \notin self_stop_words /\ Len(word) > 2)
         IN  join(Space, words)

\* Mutant: words of two letters are kept (len(word) > 1).
preprocess_text_two_letters(text) ==
    IF text = <<>>
    THEN <<>>
    ELSE LET words == SelectSeq(split(StripNonLetters(lower(text))),
                                LAMBDA word : word \notin self_stop_words /\ Len(word) > 1)
         IN  join(Space, words)

preprocess_text(text) ==
    IF text = <<>>
    THEN <<>>
    ELSE LET words == SelectSeq(split(StripNonLetters(lower(text))),
                                LAMBDA word : word \notin self_stop_words /\ Len(word) > 2)
         IN  join(Space, words)

\* A Python value as preprocess_text sees it: its type, its truth value and,
\* for a str, its characters.
PyStr(text) == [type |-> "str", truthy |-> text # <<>>, text |-> text]
PyOther(type, truthy) == [type |-> type, truthy |-> truthy, text |-> <<>>]

\* preprocess_text(value) for any value: "not text" returns "" for every
\* falsy value, and text.lower() raises AttributeError for a truthy value
\* that is no str.
preprocess_text_call(value) ==
    IF ~value.truthy
    THEN [raised |-> FALSE, text |-> <<>>]
    ELSE IF value.type # "str"
         THEN [raised |-> TRUE, text |-> <<>>]
         ELSE [raised |-> FALSE, text |-> preprocess_text(value.text)]

----------------------------------------------------------------------------
(* TfidfVectorizer(max_features, ngram_range=(1, 2), min_df, max_df) fitted  *)
(* on the two cleaned documents, and cosine_similarity of the two rows.      *)

MaxFeatures == 1000
NgramMin == 1
NgramMax == 2
MinDf == 1
MaxDfTenths == 8

\* The analyzer's tokens: runs of two or more word characters.
Tokens(doc) == SelectSeq(split(doc), LAMBDA w : Len(w) >= 2)

\* The n-grams of a token list, each a sequence of tokens.
Terms(words) ==
    {SubSeq(words, i, i + n - 1) :
        <<n, i>> \in {q \in (NgramMin..NgramMax) \X (1..Len(words)) :
                         q[2] + q[1] - 1 <= Len(words)}}

TermCount(term, words) ==
    Cardinality({i \in 1..(Len(words) - Len(term) + 1) :
                    SubSeq(words, i, i + Len(term) - 1) = term})

DocFreq(term, docs) ==
    Cardinality({d \in 1..Len(docs) : term \in Terms(docs[d])})

RECURSIVE SumOver(_, _)
SumOver(f, S) ==
    IF S = {} THEN 0
    ELSE LET x == CHOOSE y \in S : TRUE IN f[x] + SumOver(f, S \ {x})

\* Mutant: no upper limit on the document frequency (max_df=1.0).
LimitFeatures_without_max_df(vocabulary, docs) ==
    {t \in vocabulary : DocFreq(t, docs) >= MinDf}

\* CountVectorizer._limit_features: document-frequency pruning, then the
\* max_features most frequent terms.
LimitFeatures(vocabulary, docs) ==
    LET n_doc == Len(docs)
        in_range == {t \in vocabulary :
                        /\ DocFreq(t, docs) >= MinDf
                        /\ DocFreq(t, docs) * 10 <= MaxDfTenths * n_doc}
        tfs == [t \in in_range |-> SumOver([d \in 1..n_doc |-> TermCount(t, docs[d])], 1..n_doc)]
    IN  IF Cardinality(in_range) <= MaxFeatures
        THEN in_range
        ELSE CHOOSE top \in SUBSET in_range :
                /\ Cardinality(top) = MaxFeatures
                /\ \A a \in top, b \in in_range \ top : tfs[a] >= tfs[b]

\* smooth idf, ln((1 + n) / (1 + df)) + 1, in tenths, for the corpus of two:
\* df = 1 gives 1.405..., df = 2 gives 1.
IdfTenths == <<14, 10>>

SqrtUp(n) == CHOOSE r \in 0..n : r * r >= n /\ (r = 0 \/ (r - 1) * (r - 1) < n)

\* cosine_similarity of the tf-idf rows of documents 1 and 2, rounded down to
\* a multiple of 1/Scale; exactly 0 when the rows share no feature.
CosineSimilarity(features, docs) ==
    LET w(d) == [t \in features |-> TermCount(t, docs[d]) * IdfTenths[DocFreq(t, docs)]]
        dot == SumOver([t \in features |-> w(1)[t] * w(2)[t]], features)
        n1 == SumOver([t \in features |-> w(1)[t] * w(1)[t]], features)
        n2 == SumOver([t \in features |-> w(2)[t] * w(2)[t]], features)
    IN  IF dot = 0 THEN 0
        ELSE Min(Scale, (Scale * dot) \div (SqrtUp(n1) * SqrtUp(n2)))

\* Mutant: the vocabulary is not limited at all.
FitTransform_unlimited(documents) ==
    LET docs == [d \in 1..Len(documents) |-> Tokens(documents[d])]
        vocabulary == UNION {Terms(docs[d]) : d \in 1..Len(docs)}
    IN  IF vocabulary = {}
        THEN [raised |-> TRUE, similarity |-> 0]
        ELSE [raised |-> FALSE, similarity |-> CosineSimilarity(vocabulary, docs)]

\* vectorizer.fit_transform(documents): a ValueError ("empty vocabulary",
\* "After pruning, no terms remain") or the selected features.
FitTransform(documents) ==
    LET docs == [d \in 1..Len(documents) |-> Tokens(documents[d])]
        vocabulary == UNION {Terms(docs[d]) : d \in 1..Len(docs)}
        features == LimitFeatures(vocabulary, docs)
    IN  IF vocabulary = {} \/ features = {}
        THEN [raised |-> TRUE, similarity |-> 0]
        ELSE [raised |-> FALSE, similarity |-> CosineSimilarity(features, docs)]

\* Mutant: the blog's words are counted as a list, not as a set.
simple_keyword_similarity_lists(user_interests, blog_content) ==
    LET blog_words == split(lower(blog_content))
        interest_words == ToSet(split(lower(join(Space, user_interests))))
        matches == {i \in 1..Len(blog_words) : blog_words[i] \in interest_words}
    IN  IF interest_words = {}
        THEN 0
        ELSE (Cardinality(matches) * Scale) \div Cardinality(interest_words)

\* Mutant: the interests are cleaned like the blog document before matching.
simple_keyword_similarity_cleaned(user_interests, blog_content) ==
    LET blog_words == ToSet(split(lower(blog_content)))
        interest_words == ToSet(split(preprocess_text(join(Space, user_interests))))
        intersection == blog_words \cap interest_words
    IN  IF interest_words = {}
        THEN 0
        ELSE (Cardinality(intersection) * Scale) \div Cardinality(interest_words)

simple_keyword_similarity(user_interests, blog_content) ==
    LET blog_words == ToSet(split(lower(blog_content)))
        interest_words == ToSet(split(lower(join(Space, user_interests))))
        intersection == blog_words \cap interest_words
    IN  IF interest_words = {}
        THEN 0
        ELSE (Cardinality(intersection) * Scale) \div Cardinality(interest_words)

\* A returned float, or an exception that leaves the function.
Returned(x) == [raised |-> FALSE, value |-> x]
Raised == [raised |-> TRUE, value |-> 0]

\* f"{blog_title} {blog_title} {blog_content} {' '.join(blog_tags)} {' '.join(blog_tags)}"
BlogDocument(blog_content, blog_title, blog_tags) ==
    LET tags == join(Space, blog_tags)
    IN  blog_title \o Space \o blog_title \o Space \o blog_content \o Space \o tags \o Space \o tags

\* Mutant: the test for an empty cleaned document is missing.
SimilarityRun_unchecked(user_interests, blog_content, blog_title, blog_tags) ==
    IF blog_tags = None
    THEN [via |-> "join", outcome |-> Raised]
    ELSE
    LET user_profile_clean == preprocess_text(join(Space, user_interests))
        blog_document_clean ==
            preprocess_text(BlogDocument(blog_content, blog_title, TheValue(blog_tags)))
        fit == FitTransform(<<user_profile_clean, blog_document_clean>>)
    IN  IF fit.raised
        THEN [via |-> "fallback",
              outcome |-> Returned(simple_keyword_similarity(user_interests, blog_document_clean))]
        ELSE [via |-> "cosine", outcome |-> Returned(fit.similarity)]

\* Lines 40-72, everything after the empty-profile test: the outcome, and the
\* statement the call leaves through ("join": line 44 raises; "empty_document":
\* line 51; "cosine": line 69; "fallback": line 72).
SimilarityRun(user_interests, blog_content, blog_title, blog_tags) ==
    IF blog_tags = None
    THEN [via |-> "join", outcome |-> Raised]    \* ' '.join(None): TypeError, outside the try
    ELSE
    LET user_profile == join(Space, user_interests)
        blog_document == BlogDocument(blog_content, blog_title, TheValue(blog_tags))
        user_profile_clean == preprocess_text(user_profile)
        blog_document_clean == preprocess_text(blog_document)
    IN  IF user_profile_clean = <<>> \/ blog_document_clean = <<>>
        THEN [via |-> "empty_document", outcome |-> Returned(0)]
        ELSE LET fit == FitTransform(<<user_profile_clean, blog_document_clean>>)
             IN  IF fit.raised
                 THEN [via |-> "fallback",
                       outcome |-> Returned(simple_keyword_similarity(user_interests,
                                                                      blog_document_clean))]
                 ELSE [via |-> "cosine", outcome |-> Returned(fit.similarity)]

SimilarityOfDocuments(user_interests, blog_content, blog_title, blog_tags) ==
    SimilarityRun(user_interests, blog_content, blog_title, blog_tags).outcome

\* Mutant: the empty-profile test is missing.
calculate_content_similarity_unguarded(user_interests, blog_content, blog_title, blog_tags) ==
    SimilarityOfDocuments(user_interests, blog_content, blog_title, blog_tags)

calculate_content_similarity(user_interests, blog_content, blog_title, blog_tags) ==
    IF user_interests = <<>>
    THEN Returned(0)
    ELSE SimilarityOfDocuments(user_interests, blog_content, blog_title, blog_tags)

\* The statement calculate_content_similarity leaves through; "no_interests"
\* is line 38.
ReturnSite(user_interests, blog_content, blog_title, blog_tags) ==
    IF user_interests = <<>>
    THEN "no_interests"
    ELSE SimilarityRun(user_interests, blog_content, blog_title, blog_tags).via

\* Mutant: the age limits are inclusive (days_old <= 1, <= 7, <= 30).
RecencyBonus_inclusive(created_at, now) ==
    IF created_at.type = "datetime"
    THEN LET days_old == Days(now - created_at.ticks)
         IN  IF days_old <= 1 THEN 30 * Hundredth
             ELSE IF days_old <= 7 THEN 20 * Hundredth
             ELSE IF days_old <= 30 THEN 10 * Hundredth
             ELSE 0
    ELSE 0

RecencyBonus(created_at, now) ==
    IF created_at.type = "datetime"
    THEN LET days_old == Days(now - created_at.ticks)
         IN  IF days_old < 1 THEN 30 * Hundredth
             ELSE IF days_old < 7 THEN 20 * Hundredth
             ELSE IF days_old < 30 THEN 10 * Hundredth
             ELSE 0
    ELSE 0

PublishedBonus(published) == IF published THEN 20 * Hundredth ELSE 0

\* Mutant: the popularity bonus has no cap.
PopularityBonus_uncapped(likes_count) == likes_count * Hundredth

\* Mutant: likes beyond the cap earn nothing instead of the cap.
PopularityBonus_dropped_at_cap(likes_count) ==
    IF likes_count * Hundredth <= 30 * Hundredth THEN likes_count * Hundredth ELSE 0

PopularityBonus(likes_count) == Min(likes_count * Hundredth, 30 * Hundredth)

\* Mutant: neither the popularity cap nor the final min(score, 1.0).
calculate_engagement_score_uncapped(b, now) ==
    RecencyBonus(Get(b, "created_at", Datetime(now)), now)
    + PublishedBonus(Get(b, "published", FALSE))
    + Get(b, "likes_count", 0) * Hundredth

calculate_engagement_score(b, now) ==
    LET score == RecencyBonus(Get(b, "created_at", Datetime(now)), now)
                 + PublishedBonus(Get(b, "published", FALSE))
                 + PopularityBonus(Get(b, "likes_count", 0))
    IN  Min(score, Scale)

----------------------------------------------------------------------------
(* Inputs *)

MaxLikes == 52
MaxBlogs == 3
MaxPage == 3
MaxPageSize == 2
MaxDrift == 1

\* The clock value the runs start from.
Today == 40 * TicksPerDay

OptionOf(S) == {None} \cup {Some(v) : v \in S}

TxtTravel == <<"T","r","a","v","e","l">>
TxtDigits == <<"4","2">>
TxtGo == <<"g","o">>
TxtTips == <<"T","r","a","v","e","l"," ","C","o","o","k","i","n","g"," ","T","i","p","s">>
TxtLearn == <<"L","e","a","r","n"," ","t","o"," ","c","o","o","k"," ","w","h","i","l","e"," ","t","r","a","v","e","l","i","n","g"," ","t","h","e"," ","w","o","r","l","d">>
TxtCovid == <<"C","O","V","I","D","-","1","9">>
TxtArt == <<"s","t","a","t","e","-","o","f","-","a","r","t">>
TagTravel == <<"t","r","a","v","e","l">>
TagFood == <<"f","o","o","d">>
TagNews == <<"n","e","w","s">>
IntCooking == <<"c","o","o","k","i","n","g">>
IntTravel == <<"t","r","a","v","e","l">>
IntCpp == <<"C","+","+"," ","n","o","w">>
IntTravelBang == <<"T","r","a","v","e","l","!">>
QTravel == <<"t","r","a","v">>
QArt == <<"A","R","T">>
TagsParam == <<" ","T","r","a","v","e","l"," ",",","f","o","o","d",",">>

\* Ages, in whole days, on both sides of every limit of the recency bonus.
AgeDaysSample == {0 - 1, 0, 1, 6, 7, 29, 30, 31}

CreatedAtInputs(now) ==
    {Datetime(now - d * TicksPerDay - r) : d \in AgeDaysSample, r \in 0..(TicksPerDay - 1)}
    \cup {NotADatetime}

LikesInputs == (0 - 1)..MaxLikes

\* A blog dict that holds a key exactly when the option is given.
BlogDict(created_at, published, likes_count) ==
    [k \in {q \in {"created_at", "published", "likes_count"} :
               \/ q = "created_at" /\ created_at # None
               \/ q = "published" /\ published # None
               \/ q = "likes_count" /\ likes_count # None}
       |-> CASE k = "created_at" -> TheValue(created_at)
             [] k = "published" -> TheValue(published)
             [] k = "likes_count" -> TheValue(likes_count)]

----------------------------------------------------------------------------
(* Engagement scoring: calculate_engagement_score applied to one blog dict,  *)
(* and again after the blog has gained a like.                               *)

EngIdle ==
    /\ blog = [k \in {} |-> 0]
    /\ eng_now = 0
    /\ eng_pc = "idle"
    /\ eng_score = 0
    /\ eng_first = [set |-> FALSE, likes_count |-> 0, score |-> 0]

EngInit ==
    /\ eng_now = Today
    /\ blog \in {BlogDict(c, p, l) : c \in OptionOf(CreatedAtInputs(Today)),
                                     p \in OptionOf(BOOLEAN),
                                     l \in OptionOf(LikesInputs)}
    /\ eng_pc = "pending"
    /\ eng_score = 0
    /\ eng_first = [set |-> FALSE, likes_count |-> 0, score |-> 0]

EngScore ==
    /\ eng_pc = "pending"
    /\ eng_score' = calculate_engagement_score(blog, eng_now)
    /\ eng_pc' = "scored"
    /\ eng_first' = IF eng_first.set THEN eng_first
                    ELSE [set |-> TRUE, likes_count |-> Get(blog, "likes_count", 0),
                          score |-> eng_score']
    /\ UNCHANGED <<blog, eng_now>>

\* {"$inc": {"likes_count": 1}} on the blog document, a missing field counting as 0.
EngMoreLikes ==
    /\ eng_pc = "scored"
    /\ Get(blog, "likes_count", 0) < MaxLikes
    /\ blog' = [k \in DOMAIN blog \cup {"likes_count"} |->
                   IF k = "likes_count" THEN Get(blog, "likes_count", 0) + 1 ELSE blog[k]]
    /\ eng_pc' = "pending"
    /\ UNCHANGED <<eng_now, eng_score, eng_first>>

----------------------------------------------------------------------------
(* Content similarity: calculate_content_similarity applied to one call.     *)

SimIdle ==
    /\ sim_args = <<>>
    /\ sim_pc = "idle"
    /\ sim_result = Returned(0)
    /\ sim_via = "idle"
    /\ sim_keyword = None

InterestInputs ==
    {<<>>, <<IntTravel, IntTravel>>, <<IntCooking, IntTravel>>, <<IntCpp>>,
     <<IntTravelBang, IntTravel>>}
TitleInputs == {TxtTravel, TxtTips, TxtCovid, TxtGo}
ContentInputs == {TxtDigits, TxtGo, TxtLearn, TxtArt}
TagsInputs == {None, Some(<<>>), Some(<<TagTravel, TagFood>>), Some(<<TagNews>>)}

SimInit ==
    /\ sim_args \in [user_interests : InterestInputs, blog_content : ContentInputs,
                     blog_title : TitleInputs, blog_tags : TagsInputs]
    /\ sim_pc = "pending"
    /\ sim_result = Returned(0)
    /\ sim_via = "pending"
    /\ sim_keyword = None

SimCall ==
    /\ sim_pc = "pending"
    /\ sim_result' = calculate_content_similarity(sim_args.user_interests, sim_args.blog_content,
                                                  sim_args.blog_title, sim_args.blog_tags)
    /\ sim_via' = ReturnSite(sim_args.user_interests, sim_args.blog_content,
                              sim_args.blog_title, sim_args.blog_tags)
    /\ sim_pc' = IF sim_result'.raised THEN "raised" ELSE "returned"
    /\ UNCHANGED <<sim_args, sim_keyword>>

\* simple_keyword_similarity called on its own, the blog title as its text.
SimKeywordCall ==
    /\ sim_pc # "idle"
    /\ sim_keyword = None
    /\ sim_keyword' = Some(simple_keyword_similarity(sim_args.user_interests, sim_args.blog_title))
    /\ UNCHANGED <<sim_args, sim_pc, sim_result, sim_via>>

----------------------------------------------------------------------------
(* The normalizer: preprocess_text applied to one value, and again to what  *)
(* it returned.                                                             *)

MaxTextLen == 4

TextAlphabet == {"t", "h", "e", "T", " ", "1"}

TxtSpaced == <<" ","T","h","e","\t","Q","u","i","c","k"," "," ","b","r","o","w","n","-","f","o","x","\n","i","s"," ","u","p">>

TextInputs ==
    UNION {[1..n -> TextAlphabet] : n \in 0..MaxTextLen}
    \cup {TxtSpaced, TxtTips, TxtLearn, TxtCovid, TxtArt, IntCpp}

\* None, 0, 42, [], ["travel"], {}
NonStringInputs ==
    {PyOther("NoneType", FALSE), PyOther("int", FALSE), PyOther("int", TRUE),
     PyOther("list", FALSE), PyOther("list", TRUE), PyOther("dict", FALSE)}

NormIdle ==
    /\ norm_input = PyStr(<<>>)
    /\ norm_pc = "idle"
    /\ norm_out = <<>>
    /\ norm_again = <<>>

NormInit ==
    /\ norm_input \in {PyStr(text) : text \in TextInputs} \cup NonStringInputs
    /\ norm_pc = "pending"
    /\ norm_out = <<>>
    /\ norm_again = <<>>

Normalize ==
    /\ norm_pc = "pending"
    /\ LET call == preprocess_text_call(norm_input)
       IN  /\ norm_pc' = IF call.raised THEN "raised" ELSE "once"
           /\ norm_out' = call.text
    /\ UNCHANGED <<norm_input, norm_again>>

NormalizeAgain ==
    /\ norm_pc = "once"
    /\ norm_again' = preprocess_text(norm_out)
    /\ norm_pc' = "twice"
    /\ UNCHANGED <<norm_input, norm_out>>

----------------------------------------------------------------------------
(* Storage *)

\* A blogs document as create_blog writes it; update_blog can set tags to
\* null (BlogUpdate.tags is Optional and an explicit null is $set).
Doc(id, user_id, title, content, tags, published, created_ticks, likes_count) ==
    [id |-> id, user_id |-> user_id, title |-> title, content |-> content,
     tags |-> tags, published |-> published,
     created_at |-> Datetime(created_ticks), likes_count |-> likes_count]

BlogPool ==
    { Doc("b1", "u1", TxtTravel, TxtDigits, Some(<<>>), TRUE, Today, 0),
      Doc("b2", "u2", TxtTips, TxtLearn, Some(<<TagTravel, TagFood>>), TRUE,
          Today - TicksPerDay + 1, 50),
      Doc("b3", "u1", TxtCovid, TxtArt, Some(<<TagNews>>), TRUE, Today - 8 * TicksPerDay, 3),
      Doc("b4", "u1", TxtTravel, TxtGo, Some(<<>>), TRUE, Today, 0),
      Doc("b5", "u1", TxtTravel, TxtLearn, None, TRUE, Today, 1),
      Doc("b6", "u2", TxtTravel, TxtArt, Some(<<TagNews>>), FALSE, Today - TicksPerDay, 2) }

\* The collections the runs start from: up to MaxBlogs distinct documents in
\* any order.
DbStates ==
    {s \in UNION {[1..n -> BlogPool] : n \in 0..MaxBlogs} :
        \A i, j \in 1..Len(s) : i # j => s[i] # s[j]}

\* The users collection: the author "u2" has no document.
db_users == [u \in {"u1"} |-> [username |-> "alice"]]

\* db.users.find_one({"_id": user_id})
FindUser(user_id) == IF user_id \in DOMAIN db_users THEN Some(db_users[user_id]) ELSE None

\* The bearer tokens that verify, and the "sub" each carries; any other token
\* fails jwt.decode.  The users are named by their e-mail address.
TokenSubjects == [token \in {"token_u1", "token_u2"} |-> IF token = "token_u1" THEN "u1" ELSE "u2"]

\* verify_token: the token's subject, or None where it raises.
verify_token(token) == IF token \in DOMAIN TokenSubjects THEN Some(TokenSubjects[token]) ELSE None

\* get_user_by_email
get_user_by_email(email) == IF email \in DOMAIN db_users THEN Some(email) ELSE None

\* The current user if authenticated, otherwise None: no credentials, a token
\* that does not verify (the exception is swallowed) and a subject without a
\* users document all give None.
get_current_user_optional(credentials) ==
    IF credentials = None
    THEN None
    ELSE LET token_data == verify_token(TheValue(credentials))
         IN  IF token_data = None THEN None ELSE get_user_by_email(TheValue(token_data))

CredentialInputs == {None, Some("garbage"), Some("token_u1"), Some("token_u2")}

\* a case-insensitive {"$regex": query} of a query without metacharacters
Contains(text, query) ==
    \E i \in 1..(Len(text) - Len(query) + 1) :
        SubSeq(lower(text), i, i + Len(query) - 1) = lower(query)

\* [tag.strip().lower() for tag in tags.split(',') if tag.strip()]
TagsList(tags) ==
    LET fields == SelectSeq(split_comma(tags), LAMBDA tag : strip(tag) # <<>>)
    IN  [i \in 1..Len(fields) |-> lower(strip(fields[i]))]

\* query_filter of get_all_blogs_sorted_by_interest
ServiceFilter(doc, published_only, tags) ==
    /\ published_only => doc.published = TRUE
    /\ (tags # None /\ TheValue(tags) # <<>> /\ TagsList(TheValue(tags)) # <<>>)
          => /\ doc.tags # None
             /\ ToSet(TheValue(doc.tags)) \cap ToSet(TagsList(TheValue(tags))) # {}

\* search_filter of search_blogs
SearchFilter(doc, query) ==
    /\ doc.published = TRUE
    /\ \/ Contains(doc.title, query)
       \/ Contains(doc.content, query)
       \/ /\ doc.tags # None
          /\ \E t \in ToSet(TheValue(doc.tags)) : Contains(t, query)

----------------------------------------------------------------------------
(* Scoring one blog, sorting and paginating *)

\* Mutant: the two weights are exchanged.
WeightedScore_swapped(content_score, engagement_score) ==
    (content_score * 2 + engagement_score * 8) \div 10

\* (content_score * 0.8) + (engagement_score * 0.2)
WeightedScore(content_score, engagement_score) ==
    (content_score * 8 + engagement_score * 2) \div 10

\* BlogResponse(...): pydantic rejects tags that are no list.
BlogResponse(doc, username) ==
    IF doc.tags = None
    THEN None
    ELSE Some([id |-> doc.id, user_id |-> doc.user_id, username |-> username,
               tags |-> TheValue(doc.tags), published |-> doc.published,
               created_at |-> doc.created_at, likes_count |-> doc.likes_count])

\* One item of the list, with the loop's locals at the time it was appended;
\* no item when the iteration raised.
Scored(response, total_score, content_score, engagement_score, now) ==
    IF response = None
    THEN None
    ELSE Some([blog |-> TheValue(response), relevance_score |-> total_score,
               locals |-> [content_score |-> content_score,
                           engagement_score |-> engagement_score, now |-> now]])

\* One iteration of the loop of get_all_blogs_sorted_by_interest.
ServiceScoreBlog(doc, interests, now) ==
    LET blog_tag_names == Get(doc, "tags", Some(<<>>))
        user == FindUser(doc.user_id)
        similarity == IF interests # <<>>
                      THEN calculate_content_similarity(interests, Get(doc, "content", <<>>),
                                                        Get(doc, "title", <<>>), blog_tag_names)
                      ELSE Returned(0)
        engagement_score == calculate_engagement_score(doc, now)
        total_score == IF interests # <<>>
                       THEN WeightedScore(similarity.value, engagement_score)
                       ELSE engagement_score
        username == IF user # None THEN TheValue(user).username ELSE "dd"
    IN  IF similarity.raised
        THEN None
        ELSE Scored(BlogResponse(doc, username), total_score, similarity.value,
                    engagement_score, now)

\* One iteration of the loop of search_blogs.
SearchScoreBlog(doc, interests, now) ==
    LET author == FindUser(doc.user_id)
        username == IF author # None THEN TheValue(author).username ELSE "Unknown"
        similarity == IF interests # <<>>
                      THEN calculate_content_similarity(interests, Get(doc, "content", <<>>),
                                                        Get(doc, "title", <<>>),
                                                        Get(doc, "tags", Some(<<>>)))
                      ELSE Returned(0)
        engagement_score == calculate_engagement_score(doc, now)
        total_score == IF interests # <<>>
                       THEN WeightedScore(similarity.value, engagement_score)
                       ELSE engagement_score
    IN  IF similarity.raised
        THEN None
        ELSE Scored(BlogResponse(doc, username), total_score, similarity.value,
                    engagement_score, now)

\* Mutant: an item goes before the items of equal score.
RECURSIVE InsertByRelevance_unstable(_, _)
InsertByRelevance_unstable(sorted, x) ==
    IF sorted = <<>> THEN <<x>>
    ELSE IF Head(sorted).relevance_score > x.relevance_score
         THEN <<Head(sorted)>> \o InsertByRelevance_unstable(Tail(sorted), x)
         ELSE <<x>> \o sorted

\* Mutant: reverse=True is missing, the order is ascending.
RECURSIVE InsertByRelevance_ascending(_, _)
InsertByRelevance_ascending(sorted, x) ==
    IF sorted = <<>> THEN <<x>>
    ELSE IF Head(sorted).relevance_score <= x.relevance_score
         THEN <<Head(sorted)>> \o InsertByRelevance_ascending(Tail(sorted), x)
         ELSE <<x>> \o sorted

\* list.sort(key=relevance_score, reverse=True) is stable: an item goes after
\* every item whose score is at least its own.
RECURSIVE InsertByRelevance(_, _)
InsertByRelevance(sorted, x) ==
    IF sorted = <<>> THEN <<x>>
    ELSE IF Head(sorted).relevance_score >= x.relevance_score
         THEN <<Head(sorted)>> \o InsertByRelevance(Tail(sorted), x)
         ELSE <<x>> \o sorted

RECURSIVE SortByRelevance(_)
SortByRelevance(recs) ==
    IF recs = <<>> THEN <<>>
    ELSE InsertByRelevance(SortByRelevance(SubSeq(recs, 1, Len(recs) - 1)), recs[Len(recs)])

\* seq[start:stop]
PySlice(seq, start, stop) ==
    LET n == Len(seq)
        lo == IF start < 0 THEN (IF n + start < 0 THEN 0 ELSE n + start) ELSE Min(start, n)
        hi == IF stop < 0 THEN (IF n + stop < 0 THEN 0 ELSE n + stop) ELSE Min(stop, n)
    IN  IF lo >= hi THEN <<>> ELSE SubSeq(seq, lo + 1, hi)

\* Mutant: the first page starts at page_size.
Paginate_from_page(recs, page, page_size) ==
    PySlice(recs, page * page_size, page * page_size + page_size)

\* Mutant: a page past the end is answered with the last page.
Paginate_clamped(recs, page, page_size) ==
    LET start_idx == (page - 1) * page_size
        last == IF Len(recs) = 0 THEN 0 ELSE ((Len(recs) - 1) \div page_size) * page_size
        from == Min(start_idx, last)
    IN  PySlice(recs, from, from + page_size)

Paginate(recs, page, page_size) ==
    LET start_idx == (page - 1) * page_size
        end_idx == start_idx + page_size
    IN  PySlice(recs, start_idx, end_idx)

----------------------------------------------------------------------------
(* One ranking request: get_all_blogs_sorted_by_interest or search_blogs.    *)

NoResult == [items |-> <<>>, total_count |-> 0, page |-> 0, page_size |-> 0, total_pages |-> 0]

RankInterests == {<<>>, <<IntTravel, IntTravel>>, <<IntCooking, IntTravel>>}

RankIdle ==
    /\ db_blogs = <<>>
    /\ db_user_interests = None
    /\ path = "idle"
    /\ params = [user_interests |-> <<>>, published_only |-> TRUE, tags |-> None,
                 query |-> <<>>, credentials |-> None, current_user |-> None]
    /\ clock = 0
    /\ pc = "idle"
    /\ req_interests = <<>>
    /\ all_blogs = <<>>
    /\ recommendations = <<>>
    /\ result = NoResult

RankInit ==
    /\ db_blogs \in DbStates
    /\ clock = Today
    /\ pc = "start"
    /\ all_blogs = <<>>
    /\ recommendations = <<>>
    /\ result = NoResult
    /\ path \in {"service", "search"}
    /\ IF path = "service"
       THEN /\ params \in [user_interests : RankInterests, published_only : BOOLEAN,
                           tags : {None, Some(TagsParam)}, query : {<<>>},
                           credentials : {None}, current_user : {None}]
            /\ db_user_interests = None
            /\ req_interests = params.user_interests
       ELSE /\ params \in [user_interests : {<<>>}, published_only : {TRUE}, tags : {None},
                           query : {QTravel, QArt}, credentials : CredentialInputs,
                           current_user : {None, Some("u1")}]
            /\ params.current_user = get_current_user_optional(params.credentials)
            /\ db_user_interests \in IF params.current_user # None
                                     THEN OptionOf(RankInterests)
                                     ELSE {None, Some(<<IntCooking, IntTravel>>)}
            /\ req_interests = <<>>

\* db.blogs.find(query_filter).to_list(length=None)
ServiceFetch ==
    /\ pc = "start"
    /\ path = "service"
    /\ all_blogs' = SelectSeq(db_blogs,
                       LAMBDA doc : ServiceFilter(doc, params.published_only, params.tags))
    /\ pc' = "score"
    /\ UNCHANGED <<db_blogs, db_user_interests, path, params, clock, req_interests,
                   recommendations, result>>

\* db.blogs.find(search_filter).to_list(length=None)
SearchFetch ==
    /\ pc = "start"
    /\ path = "search"
    /\ all_blogs' = SelectSeq(db_blogs, LAMBDA doc : SearchFilter(doc, params.query))
    /\ pc' = IF params.current_user # None THEN "interests" ELSE "score"
    /\ UNCHANGED <<db_blogs, db_user_interests, path, params, clock, req_interests,
                   recommendations, result>>

\* Mutant: the lookup creates the interests document it does not find.
SearchFetchInterests_upserting ==
    /\ pc = "interests"
    /\ req_interests' = IF db_user_interests # None THEN TheValue(db_user_interests) ELSE <<>>
    /\ db_user_interests' = IF db_user_interests # None THEN db_user_interests ELSE Some(<<>>)
    /\ pc' = "score"
    /\ UNCHANGED <<db_blogs, path, params, clock, all_blogs, recommendations, result>>

\* db.user_interests.find_one({"user_id": current_user.id})
SearchFetchInterests ==
    /\ pc = "interests"
    /\ req_interests' = IF db_user_interests # None THEN TheValue(db_user_interests) ELSE <<>>
    /\ pc' = "score"
    /\ UNCHANGED <<db_blogs, db_user_interests, path, params, clock, all_blogs,
                   recommendations, result>>

\* One iteration: the author lookup returns, the blog is scored and appended,
\* or the exception leaves the handler.  The clock may have advanced.
ScoreNext ==
    /\ pc = "score"
    /\ Len(recommendations) < Len(all_blogs)
    /\ \E now \in clock..Min(clock + 1, Today + MaxDrift) :
         LET doc == all_blogs[Len(recommendations) + 1]
             scored == IF path = "service"
                       THEN ServiceScoreBlog(doc, req_interests, now)
                       ELSE SearchScoreBlog(doc, req_interests, now)
         IN  /\ clock' = now
             /\ IF scored = None
                THEN /\ pc' = "raised"
                     /\ UNCHANGED recommendations
                ELSE /\ pc' = "score"
                     /\ recommendations' = Append(recommendations, TheValue(scored))
    /\ UNCHANGED <<db_blogs, db_user_interests, path, params, req_interests, all_blogs, result>>

\* After the loop: sort, slice, return.  page and page_size are arguments of
\* the request that nothing reads before this point.
Finish ==
    /\ pc = "score"
    /\ Len(recommendations) = Len(all_blogs)
    /\ \E page \in 1..MaxPage, page_size \in 1..MaxPageSize :
         LET sorted == SortByRelevance(recommendations)
             total_count == Len(sorted)
             slice == Paginate(sorted, page, page_size)
         IN  /\ recommendations' = sorted
             /\ result' = [items |-> IF path = "search"
                                     THEN [i \in 1..Len(slice) |-> slice[i].blog]
                                     ELSE slice,
                           total_count |-> total_count,
                           page |-> page,
                           page_size |-> page_size,
                           total_pages |-> (total_count + page_size - 1) \div page_size]
    /\ pc' = "done"
    /\ UNCHANGED <<db_blogs, db_user_interests, path, params, clock, req_interests, all_blogs>>

----------------------------------------------------------------------------
(* Repeated scoring: one blog is scored for one profile at one clock value, *)
(* other scoring calls follow, and the first call is repeated.              *)

MaxCallsBetween == 2

ScoringInputs ==
    [interests : RankInterests, doc : BlogPool, now : {Today, Today + MaxDrift},
     caller : {"service", "search"}]

\* content_score, engagement_score and total_score of one iteration of the
\* caller's loop, or the exception it raised.
Scores(args) ==
    LET scored == IF args.caller = "service"
                  THEN ServiceScoreBlog(args.doc, args.interests, args.now)
                  ELSE SearchScoreBlog(args.doc, args.interests, args.now)
    IN  IF scored = None
        THEN [raised |-> TRUE, content_similarity |-> 0, engagement_score |-> 0, total |-> 0]
        ELSE [raised |-> FALSE,
              content_similarity |-> TheValue(scored).locals.content_score,
              engagement_score |-> TheValue(scored).locals.engagement_score,
              total |-> TheValue(scored).relevance_score]

\* Mutant: a call remembers the words of its profile in self.stop_words.
StopWordsAfterCall_remembering(user_interests) ==
    self_stop_words \cup ToSet(split(lower(join(Space, user_interests))))

\* self.stop_words after a scoring call: no method assigns or updates it, and
\* the vectorizer is a local of the call.
StopWordsAfterCall(user_interests) == self_stop_words

PureIdle ==
    /\ pure_args = [interests |-> <<>>, doc |-> [k \in {} |-> 0], now |-> 0, caller |-> "idle"]
    /\ pure_first = None
    /\ pure_second = None
    /\ pure_between = 0

PureInit ==
    /\ pure_args \in ScoringInputs
    /\ pure_first = None
    /\ pure_second = None
    /\ pure_between = 0

PureFirstCall ==
    /\ pure_args.caller # "idle"
    /\ pure_first = None
    /\ pure_first' = Some(Scores(pure_args))
    /\ self_stop_words' = StopWordsAfterCall(pure_args.interests)
    /\ UNCHANGED <<pure_args, pure_second, pure_between>>

\* A call with other arguments; its result is not kept.
PureOtherCall ==
    /\ pure_first # None
    /\ pure_second = None
    /\ pure_between < MaxCallsBetween
    /\ \E other \in ScoringInputs \ {pure_args} :
          self_stop_words' = StopWordsAfterCall(other.interests)
    /\ pure_between' = pure_between + 1
    /\ UNCHANGED <<pure_args, pure_first, pure_second>>

PureSecondCall ==
    /\ pure_first # None
    /\ pure_second = None
    /\ pure_second' = Some(Scores(pure_args))
    /\ self_stop_words' = StopWordsAfterCall(pure_args.interests)
    /\ UNCHANGED <<pure_args, pure_first, pure_between>>

----------------------------------------------------------------------------
(* Concurrent requests: a service ranking and a search run interleaved at   *)
(* their await points, together with writes to the blogs collection.        *)

MaxConcWrites == 1

\* Request 1 is get_all_blogs_sorted_by_interest, request 2 is search_blogs.
Requests == {1, 2}
RequestPath(r) == IF r = 1 THEN "service" ELSE "search"

ConcDbStates ==
    {s \in [1..2 -> {doc \in BlogPool : doc.id \in {"b1", "b2", "b3"}}] : s[1] # s[2]}

\* The locals of a request before its first statement.
NewRequest(interests) ==
    [pc |-> "start", interests |-> interests, all_blogs |-> <<>>,
     recommendations |-> <<>>, result |-> <<>>]

ConcIdle ==
    /\ conc_db = <<>>
    /\ conc_req = <<>>
    /\ conc_writes = 0

ConcInit ==
    /\ conc_db \in ConcDbStates
    /\ conc_req \in [Requests -> {NewRequest(interests) :
                                     interests \in {<<>>, <<IntTravel, IntTravel>>}}]
    /\ conc_writes = 0

\* blogs = await db.blogs.find(...).to_list(length=None)
ConcFetch(r) ==
    /\ conc_req[r].pc = "start"
    /\ conc_req' = [conc_req EXCEPT
          ![r].all_blogs = IF RequestPath(r) = "service"
                           THEN SelectSeq(conc_db, LAMBDA doc : ServiceFilter(doc, TRUE, None))
                           ELSE SelectSeq(conc_db, LAMBDA doc : SearchFilter(doc, QTravel)),
          ![r].pc = "score"]
    /\ UNCHANGED <<conc_db, conc_writes>>

\* Mutant: the loop scores the stored document as it is now, not the one it
\* fetched.
RequestDoc_stored_now(r, k) ==
    LET fetched == conc_req[r].all_blogs[k]
        stored == {i \in 1..Len(conc_db) : conc_db[i].id = fetched.id}
    IN  IF stored = {} THEN fetched ELSE conc_db[CHOOSE i \in stored : TRUE]

\* "for blog in all_blogs": the k-th dict of the list the request fetched.
RequestDoc(r, k) == conc_req[r].all_blogs[k]

\* One iteration of the request's loop, from the await of the author lookup
\* to the append.
ConcScore(r) ==
    /\ conc_req[r].pc = "score"
    /\ Len(conc_req[r].recommendations) < Len(conc_req[r].all_blogs)
    /\ LET doc == RequestDoc(r, Len(conc_req[r].recommendations) + 1)
           scored == IF RequestPath(r) = "service"
                     THEN ServiceScoreBlog(doc, conc_req[r].interests, Today)
                     ELSE SearchScoreBlog(doc, conc_req[r].interests, Today)
       IN  conc_req' = IF scored = None
                       THEN [conc_req EXCEPT ![r].pc = "raised"]
                       ELSE [conc_req EXCEPT ![r].recommendations = Append(@, TheValue(scored))]
    /\ UNCHANGED <<conc_db, conc_writes>>

\* After the loop: sort, slice the first page, return.
ConcFinish(r) ==
    /\ conc_req[r].pc = "score"
    /\ Len(conc_req[r].recommendations) = Len(conc_req[r].all_blogs)
    /\ LET sorted == SortByRelevance(conc_req[r].recommendations)
       IN  conc_req' = [conc_req EXCEPT ![r].recommendations = sorted,
                                        ![r].result = Paginate(sorted, 1, MaxPageSize),
                                        ![r].pc = "done"]
    /\ UNCHANGED <<conc_db, conc_writes>>

\* toggle_like of another request: {"$inc": {"likes_count": 1}} on a blog.
ConcLike(k) ==
    /\ conc_writes < MaxConcWrites
    /\ k \in 1..Len(conc_db)
    /\ conc_db' = [conc_db EXCEPT ![k].likes_count = @ + 1]
    /\ conc_writes' = conc_writes + 1
    /\ UNCHANGED conc_req

\* delete_blog of another request: db.blogs.delete_one.
ConcDelete(k) ==
    /\ conc_writes < MaxConcWrites
    /\ k \in 1..Len(conc_db)
    /\ conc_db' = SubSeq(conc_db, 1, k - 1) \o SubSeq(conc_db, k + 1, Len(conc_db))
    /\ conc_writes' = conc_writes + 1
    /\ UNCHANGED conc_req

----------------------------------------------------------------------------
(* Likes: toggle_like and remove_like requests on one existing blog,        *)
(* interleaved at their await points.                                       *)

MaxLikeRequests == 2

LikeUsers == {"u1", "u2"}

\* The locals of a request before its first statement.
NewLikeRequest(op, user) == [op |-> op, user |-> user, pc |-> "start", existing_like |-> None]

LikeIdle ==
    /\ like_docs = {}
    /\ like_next_id = 1
    /\ blog_likes_count = 0
    /\ like_req = <<>>

\* The blog starts with no like or with one like of u1, counted.
LikeInit ==
    /\ like_docs \in {{}, {[id |-> 0, user_id |-> "u1"]}}
    /\ like_next_id = 1
    /\ blog_likes_count = Cardinality(like_docs)
    /\ like_req \in [1..MaxLikeRequests ->
                       {NewLikeRequest(op, user) : op \in {"toggle", "remove"}, user \in LikeUsers}]

\* existing_like = await db.likes.find_one({blog_id, user_id})
ToggleFind(r) ==
    /\ like_req[r].op = "toggle"
    /\ like_req[r].pc = "start"
    /\ LET mine == {d \in like_docs : d.user_id = like_req[r].user}
       IN  \E found \in IF mine = {} THEN {None} ELSE {Some(d.id) : d \in mine} :
              like_req' = [like_req EXCEPT ![r].existing_like = found, ![r].pc = "found"]
    /\ UNCHANGED <<like_docs, like_next_id, blog_likes_count>>

\* if existing_like: await db.likes.delete_one({"_id": existing_like["_id"]})
ToggleDelete(r) ==
    /\ like_req[r].pc = "found"
    /\ like_req[r].existing_like # None
    /\ like_docs' = {d \in like_docs : d.id # TheValue(like_req[r].existing_like)}
    /\ like_req' = [like_req EXCEPT ![r].pc = "deleted"]
    /\ UNCHANGED <<like_next_id, blog_likes_count>>

\* await db.blogs.update_one({"_id": blog_id}, {"$inc": {"likes_count": -1}})
ToggleDecrement(r) ==
    /\ like_req[r].pc = "deleted"
    /\ blog_likes_count' = blog_likes_count - 1
    /\ like_req' = [like_req EXCEPT ![r].pc = "done"]
    /\ UNCHANGED <<like_docs, like_next_id>>

\* result = await db.likes.insert_one(like_dict)
ToggleInsert(r) ==
    /\ like_req[r].pc = "found"
    /\ like_req[r].existing_like = None
    /\ like_docs' = like_docs \cup {[id |-> like_next_id, user_id |-> like_req[r].user]}
    /\ like_next_id' = like_next_id + 1
    /\ like_req' = [like_req EXCEPT ![r].pc = "inserted"]
    /\ UNCHANGED blog_likes_count

\* await db.blogs.update_one({"_id": blog_id}, {"$inc": {"likes_count": 1}})
ToggleIncrement(r) ==
    /\ like_req[r].pc = "inserted"
    /\ blog_likes_count' = blog_likes_count + 1
    /\ like_req' = [like_req EXCEPT ![r].pc = "done"]
    /\ UNCHANGED <<like_docs, like_next_id>>

\* remove_like: delete_one({blog_id, user_id}); 404 when deleted_count == 0.
RemoveDelete(r) ==
    /\ like_req[r].op = "remove"
    /\ like_req[r].pc = "start"
    /\ LET mine == {d \in like_docs : d.user_id = like_req[r].user}
       IN  IF mine = {}
           THEN /\ like_req' = [like_req EXCEPT ![r].pc = "not_found"]
                /\ UNCHANGED like_docs
           ELSE /\ \E d \in mine : like_docs' = like_docs \ {d}
                /\ like_req' = [like_req EXCEPT ![r].pc = "removed"]
    /\ UNCHANGED <<like_next_id, blog_likes_count>>

\* remove_like: {"$inc": {"likes_count": -1}}
RemoveDecrement(r) ==
    /\ like_req[r].pc = "removed"
    /\ blog_likes_count' = blog_likes_count - 1
    /\ like_req' = [like_req EXCEPT ![r].pc = "done"]
    /\ UNCHANGED <<like_docs, like_next_id>>

----------------------------------------------------------------------------
(* Auth: /login, /refresh and /logout of one user, with the /refresh        *)
(* requests interleaved at their await points.                              *)

MaxAuthSeconds == 2
MaxRefreshRequests == 2

REFRESH_TOKEN_EXPIRE_DAYS == 15

\* create_refresh_token: jwt.encode of {"sub", "exp"}, the expiry being the
\* creation time plus the lifetime in whole seconds.  Two tokens with the
\* same claims are the same string.
create_refresh_token(sub, now) == [sub |-> sub, exp |-> now + REFRESH_TOKEN_EXPIRE_DAYS * 86400]

\* jwt.decode inside verify_token: the signature holds for every token
\* created here, the expiry is compared with the clock.
RefreshTokenVerifies(token, now) == token.exp > now

\* The locals of a /refresh request before its first statement.
NewRefreshRequest ==
    [pc |-> "start", refresh_token |-> None, new_refresh_token |-> None,
     spent |-> FALSE, latest |-> FALSE, logged_out |-> FALSE]

AuthIdle ==
    /\ auth_stored = None
    /\ auth_now = 0
    /\ auth_issued = {}
    /\ auth_latest = None
    /\ auth_spent = {}
    /\ auth_logged_out = FALSE
    /\ auth_req = <<>>

AuthInit ==
    /\ auth_stored = None
    /\ auth_now = 0
    /\ auth_issued = {}
    /\ auth_latest = None
    /\ auth_spent = {}
    /\ auth_logged_out = FALSE
    /\ auth_req = [r \in 1..MaxRefreshRequests |-> NewRefreshRequest]

\* One second passes.
AuthTick ==
    /\ auth_req # <<>>
    /\ auth_now < MaxAuthSeconds
    /\ auth_now' = auth_now + 1
    /\ UNCHANGED <<auth_stored, auth_issued, auth_latest, auth_spent, auth_logged_out, auth_req>>

\* login with the right password: a new refresh token is created and stored.
AuthLogin ==
    /\ auth_req # <<>>
    /\ LET token == create_refresh_token("u1", auth_now)
       IN  /\ auth_stored' = Some(token)
           /\ auth_issued' = auth_issued \cup {token}
           /\ auth_latest' = Some(token)
    /\ auth_logged_out' = FALSE
    /\ UNCHANGED <<auth_now, auth_spent, auth_req>>

\* refresh_token up to the await of update_one: the cookie is verified, the
\* user is read and its refresh_token compared with the cookie; on a match
\* the new tokens are created.
RefreshCheck(r) ==
    /\ r \in DOMAIN auth_req
    /\ auth_req[r].pc = "start"
    /\ \E cookie \in auth_issued :
          IF RefreshTokenVerifies(cookie, auth_now) /\ auth_stored = Some(cookie)
          THEN LET token == create_refresh_token(cookie.sub, auth_now)
               IN  /\ auth_req' = [auth_req EXCEPT ![r] =
                                      [pc |-> "update", refresh_token |-> Some(cookie),
                                       new_refresh_token |-> Some(token),
                                       spent |-> cookie \in auth_spent,
                                       latest |-> auth_latest = Some(cookie),
                                       logged_out |-> auth_logged_out]]
                   /\ auth_issued' = auth_issued \cup {token}
                   /\ auth_latest' = Some(token)
          ELSE /\ auth_req' = [auth_req EXCEPT ![r].pc = "rejected",
                                               ![r].refresh_token = Some(cookie)]
               /\ UNCHANGED <<auth_issued, auth_latest>>
    /\ UNCHANGED <<auth_stored, auth_now, auth_spent, auth_logged_out>>

\* refresh_token from update_one to the response: the new token is stored
\* and set as the cookie.
RefreshUpdate(r) ==
    /\ r \in DOMAIN auth_req
    /\ auth_req[r].pc = "update"
    /\ auth_stored' = auth_req[r].new_refresh_token
    /\ auth_spent' = auth_spent \cup auth_req[r].refresh_token
    /\ auth_req' = [auth_req EXCEPT ![r].pc = "accepted"]
    /\ UNCHANGED <<auth_now, auth_issued, auth_latest, auth_logged_out>>

\* logout with an access token of the user: refresh_token is set to None.
AuthLogout ==
    /\ auth_issued # {}
    /\ auth_stored' = None
    /\ auth_logged_out' = TRUE
    /\ UNCHANGED <<auth_now, auth_issued, auth_latest, auth_spent, auth_req>>

SiteIdle == ConcIdle /\ LikeIdle /\ AuthIdle

----------------------------------------------------------------------------
(* Specifications *)

Init == ServiceInit /\ RankInit /\ EngIdle /\ SimIdle /\ NormIdle /\ PureIdle /\ SiteIdle

Next ==
    \/ ServiceFetch /\ UNCHANGED <<self_vars, eng_vars, sim_vars, norm_vars, pure_vars, site_vars>>
    \/ SearchFetch /\ UNCHANGED <<self_vars, eng_vars, sim_vars, norm_vars, pure_vars, site_vars>>
    \/ SearchFetchInterests /\ UNCHANGED <<self_vars, eng_vars, sim_vars, norm_vars, pure_vars, site_vars>>
    \/ ScoreNext /\ UNCHANGED <<self_vars, eng_vars, sim_vars, norm_vars, pure_vars, site_vars>>
    \/ Finish /\ UNCHANGED <<self_vars, eng_vars, sim_vars, norm_vars, pure_vars, site_vars>>

\* One ranking request against a stored collection.
Spec == Init /\ [][Next]_vars

InitEngagement == ServiceInit /\ EngInit /\ SimIdle /\ NormIdle /\ PureIdle /\ RankIdle /\ SiteIdle

NextEngagement ==
    \/ EngScore /\ UNCHANGED <<self_vars, sim_vars, norm_vars, pure_vars, rank_vars, site_vars>>
    \/ EngMoreLikes /\ UNCHANGED <<self_vars, sim_vars, norm_vars, pure_vars, rank_vars, site_vars>>

\* calculate_engagement_score on every blog dict of the input sets.
SpecEngagement == InitEngagement /\ [][NextEngagement]_vars

InitSimilarity == ServiceInit /\ SimInit /\ EngIdle /\ NormIdle /\ PureIdle /\ RankIdle /\ SiteIdle

NextSimilarity ==
    \/ SimCall /\ UNCHANGED <<self_vars, eng_vars, norm_vars, pure_vars, rank_vars, site_vars>>
    \/ SimKeywordCall /\ UNCHANGED <<self_vars, eng_vars, norm_vars, pure_vars, rank_vars, site_vars>>

\* calculate_content_similarity on every call of the input sets.
SpecSimilarity == InitSimilarity /\ [][NextSimilarity]_vars

InitNormalizer == ServiceInit /\ NormInit /\ EngIdle /\ SimIdle /\ PureIdle /\ RankIdle /\ SiteIdle

NextNormalizer ==
    \/ Normalize /\ UNCHANGED <<self_vars, eng_vars, sim_vars, pure_vars, rank_vars, site_vars>>
    \/ NormalizeAgain /\ UNCHANGED <<self_vars, eng_vars, sim_vars, pure_vars, rank_vars, site_vars>>

\* preprocess_text on every value of the input sets.
SpecNormalizer == InitNormalizer /\ [][NextNormalizer]_vars

InitPurity == ServiceInit /\ PureInit /\ EngIdle /\ SimIdle /\ NormIdle /\ RankIdle /\ SiteIdle

NextPurity ==
    \/ PureFirstCall /\ UNCHANGED <<eng_vars, sim_vars, norm_vars, rank_vars, site_vars>>
    \/ PureOtherCall /\ UNCHANGED <<eng_vars, sim_vars, norm_vars, rank_vars, site_vars>>
    \/ PureSecondCall /\ UNCHANGED <<eng_vars, sim_vars, norm_vars, rank_vars, site_vars>>

\* A scoring call, other scoring calls, and the first call again.
SpecPurity == InitPurity /\ [][NextPurity]_vars

InitConcurrent ==
    ServiceInit /\ ConcInit /\ EngIdle /\ SimIdle /\ NormIdle /\ PureIdle /\ RankIdle /\ LikeIdle /\ AuthIdle

NextConcurrent ==
    \/ \E r \in Requests :
          ConcFetch(r) /\ UNCHANGED <<self_vars, eng_vars, sim_vars, norm_vars, pure_vars, rank_vars, like_vars, auth_vars>>
    \/ \E r \in Requests :
          ConcScore(r) /\ UNCHANGED <<self_vars, eng_vars, sim_vars, norm_vars, pure_vars, rank_vars, like_vars, auth_vars>>
    \/ \E r \in Requests :
          ConcFinish(r) /\ UNCHANGED <<self_vars, eng_vars, sim_vars, norm_vars, pure_vars, rank_vars, like_vars, auth_vars>>
    \/ \E k \in 1..2 :
          ConcLike(k) /\ UNCHANGED <<self_vars, eng_vars, sim_vars, norm_vars, pure_vars, rank_vars, like_vars, auth_vars>>
    \/ \E k \in 1..2 :
          ConcDelete(k) /\ UNCHANGED <<self_vars, eng_vars, sim_vars, norm_vars, pure_vars, rank_vars, like_vars, auth_vars>>

\* Two ranking requests and writes, interleaved at the await points.
SpecConcurrent == InitConcurrent /\ [][NextConcurrent]_vars

InitLikes ==
    ServiceInit /\ LikeInit /\ EngIdle /\ SimIdle /\ NormIdle /\ PureIdle /\ RankIdle /\ ConcIdle /\ AuthIdle

NextLikes ==
    \/ \E r \in DOMAIN like_req :
          ToggleFind(r) /\ UNCHANGED <<self_vars, eng_vars, sim_vars, norm_vars, pure_vars, rank_vars, conc_vars, auth_vars>>
    \/ \E r \in DOMAIN like_req :
          ToggleDelete(r) /\ UNCHANGED <<self_vars, eng_vars, sim_vars, norm_vars, pure_vars, rank_vars, conc_vars, auth_vars>>
    \/ \E r \in DOMAIN like_req :
          ToggleDecrement(r) /\ UNCHANGED <<self_vars, eng_vars, sim_vars, norm_vars, pure_vars, rank_vars, conc_vars, auth_vars>>
    \/ \E r \in DOMAIN like_req :
          ToggleInsert(r) /\ UNCHANGED <<self_vars, eng_vars, sim_vars, norm_vars, pure_vars, rank_vars, conc_vars, auth_vars>>
    \/ \E r \in DOMAIN like_req :
          ToggleIncrement(r) /\ UNCHANGED <<self_vars, eng_vars, sim_vars, norm_vars, pure_vars, rank_vars, conc_vars, auth_vars>>
    \/ \E r \in DOMAIN like_req :
          RemoveDelete(r) /\ UNCHANGED <<self_vars, eng_vars, sim_vars, norm_vars, pure_vars, rank_vars, conc_vars, auth_vars>>
    \/ \E r \in DOMAIN like_req :
          RemoveDecrement(r) /\ UNCHANGED <<self_vars, eng_vars, sim_vars, norm_vars, pure_vars, rank_vars, conc_vars, auth_vars>>

\* toggle_like and remove_like requests interleaved at the await points.
SpecLikes == InitLikes /\ [][NextLikes]_vars

InitAuth ==
    ServiceInit /\ AuthInit /\ EngIdle /\ SimIdle /\ NormIdle /\ PureIdle /\ RankIdle /\ ConcIdle /\ LikeIdle

NextAuth ==
    \/ AuthTick /\ UNCHANGED <<self_vars, eng_vars, sim_vars, norm_vars, pure_vars, rank_vars, conc_vars, like_vars>>
    \/ AuthLogin /\ UNCHANGED <<self_vars, eng_vars, sim_vars, norm_vars, pure_vars, rank_vars, conc_vars, like_vars>>
    \/ \E r \in 1..MaxRefreshRequests :
          RefreshCheck(r) /\ UNCHANGED <<self_vars, eng_vars, sim_vars, norm_vars, pure_vars, rank_vars, conc_vars, like_vars>>
    \/ \E r \in 1..MaxRefreshRequests :
          RefreshUpdate(r) /\ UNCHANGED <<self_vars, eng_vars, sim_vars, norm_vars, pure_vars, rank_vars, conc_vars, like_vars>>
    \/ AuthLogout /\ UNCHANGED <<self_vars, eng_vars, sim_vars, norm_vars, pure_vars, rank_vars, conc_vars, like_vars>>

\* Logins, refreshes and logouts of one user.
SpecAuth == InitAuth /\ [][NextAuth]_vars

----------------------------------------------------------------------------
(* Properties of the ranking (specification Spec) *)

\* The id of an item of the returned page: the service returns the scored
\* items, the search endpoint their blogs.
ItemId(item) == IF path = "search" THEN item.id ELSE item.blog.id

\* The place of a blog in the list the request fetched.
InputIndex(id) == CHOOSE k \in 1..Len(all_blogs) : all_blogs[k].id = id

\* The relevance score the request gave a blog.
ScoreOf(id) ==
    LET k == CHOOSE i \in 1..Len(recommendations) : recommendations[i].blog.id = id
    IN  recommendations[k].relevance_score

Ranked == pc = "done"

\* C1: ranking is stable.  In the sorted list and in the returned page, of
\* two blogs with equal total score the one earlier in the input comes first,
\* in the service ranking and in the search endpoint.
C1_StableRanking ==
    Ranked =>
        /\ \A i, j \in 1..Len(recommendations) :
              (i < j /\ recommendations[i].relevance_score = recommendations[j].relevance_score)
                 => InputIndex(recommendations[i].blog.id) < InputIndex(recommendations[j].blog.id)
        /\ \A i, j \in 1..Len(result.items) :
              (i < j /\ ScoreOf(ItemId(result.items[i])) = ScoreOf(ItemId(result.items[j])))
                 => InputIndex(ItemId(result.items[i])) < InputIndex(ItemId(result.items[j]))

\* The spec's example: input [B1, B2, B3] with B1 and B2 tied below B3 is
\* ranked [B3, B1, B2]; the page returned holds two blogs of equal score.
C1_Witness ==
    /\ Ranked
    /\ path = "search"
    /\ Len(recommendations) = 3
    /\ InputIndex(recommendations[1].blog.id) = 3
    /\ InputIndex(recommendations[2].blog.id) = 1
    /\ InputIndex(recommendations[3].blog.id) = 2
    /\ recommendations[2].relevance_score = recommendations[3].relevance_score
    /\ recommendations[1].relevance_score > recommendations[2].relevance_score
    /\ result.page = 2 /\ result.page_size = 2
    /\ Len(result.items) = 1

\* C2: pagination law.  For page >= 1 and page_size >= 1 the page returned
\* is exactly the items at indices [(page-1)*page_size, (page-1)*page_size +
\* page_size) of the sorted sequence, and total_count is the number of input
\* blogs whichever page is asked for.
C2_PaginationLaw ==
    Ranked =>
        LET start == (result.page - 1) * result.page_size
            n == Len(recommendations)
            available == IF n - start < 0 THEN 0 ELSE n - start
        IN  /\ result.page >= 1 /\ result.page_size >= 1
            /\ Len(result.items) = Min(result.page_size, available)
            /\ \A k \in 1..Len(result.items) :
                  result.items[k] = IF path = "search"
                                    THEN recommendations[start + k].blog
                                    ELSE recommendations[start + k]
            /\ result.total_count = Len(all_blogs)

\* The second page of two, holding the one item left for it.
C2_Witness ==
    /\ Ranked
    /\ path = "service"
    /\ result.page = 2 /\ result.page_size = 2
    /\ Len(all_blogs) = 3
    /\ Len(result.items) = 1
    /\ result.items[1] = recommendations[3]
    /\ result.total_count = 3

RECURSIVE PagesUpTo(_, _, _)
PagesUpTo(recs, last, page_size) ==
    IF last = 0 THEN <<>>
    ELSE PagesUpTo(recs, last - 1, page_size) \o Paginate(recs, last, page_size)

\* C3: every blog of the input set is scored and ranked.  Pages 1 to
\* ceil(n/page_size) of one ranking, concatenated, hold each input blog
\* exactly once, with non-increasing relevance scores; the page returned is
\* the requested one of them.
C3_EveryBlogRanked ==
    Ranked =>
        LET n == Len(all_blogs)
            page_size == result.page_size
            pages == (n + page_size - 1) \div page_size
            whole == PagesUpTo(recommendations, pages, page_size)
            asked == Paginate(recommendations, result.page, page_size)
        IN  /\ Len(whole) = n
            /\ \A k \in 1..n :
                  Cardinality({i \in 1..Len(whole) : whole[i].blog.id = all_blogs[k].id}) = 1
            /\ \A i \in 1..(Len(whole) - 1) :
                  whole[i].relevance_score >= whole[i + 1].relevance_score
            /\ Len(result.items) = Len(asked)
            /\ \A i \in 1..Len(asked) : ItemId(result.items[i]) = asked[i].blog.id

\* Three blogs on two pages, ranked in another order than they were stored.
C3_Witness ==
    /\ Ranked
    /\ Len(all_blogs) = 3
    /\ result.page_size = 2
    /\ result.total_pages = 2
    /\ recommendations[1].relevance_score > recommendations[3].relevance_score
    /\ InputIndex(recommendations[1].blog.id) # 1

\* C4: a page past the available data, (page-1)*page_size >= number of
\* blogs, is answered with an empty page and the unchanged total_count; the
\* request completes.
C4_PagePastEnd ==
    (pc \in {"done", "raised"} /\ Len(recommendations) = Len(all_blogs)) =>
        /\ pc = "done"
        /\ (result.page - 1) * result.page_size >= Len(all_blogs)
              => /\ result.items = <<>>
                 /\ result.total_count = Len(all_blogs)

\* Page 3 of a ranking of three blogs, two to the page.
C4_Witness ==
    /\ Ranked
    /\ Len(all_blogs) = 3
    /\ result.page = 3 /\ result.page_size = 2
    /\ result.items = <<>>
    /\ result.total_count = 3

\* The document a scored item was made from.
DocOf(rec) == all_blogs[InputIndex(rec.blog.id)]

\* C5: combined score.  With a non-empty interest profile the total is
\* content_similarity * 0.8 + engagement_score * 0.2, with an empty one it
\* is engagement_score exactly, in the service ranking and in the search
\* endpoint.
C5_CombinedScore ==
    \A i \in 1..Len(recommendations) :
        LET rec == recommendations[i]
            content_similarity == rec.locals.content_score
            engagement_score == calculate_engagement_score(DocOf(rec), rec.locals.now)
        IN  /\ rec.locals.engagement_score = engagement_score
            /\ IF req_interests # <<>>
               THEN 10 * rec.relevance_score = 8 * content_similarity + 2 * engagement_score
               ELSE rec.relevance_score = engagement_score

\* A search by a user with interests ranks a blog whose content similarity is
\* 1.0 and whose engagement score is 0.5: the total is 0.9.
C5_Witness ==
    /\ Ranked
    /\ path = "search"
    /\ req_interests # <<>>
    /\ \E i \in 1..Len(recommendations) :
          /\ recommendations[i].locals.content_score = Scale
          /\ recommendations[i].locals.engagement_score = 50 * Hundredth
          /\ recommendations[i].relevance_score = 90 * Hundredth

----------------------------------------------------------------------------
(* Properties of the engagement score (specification SpecEngagement) *)

EngScored == eng_pc = "scored"

\* The age of the scored blog in ticks; a blog without created_at is as old
\* as one created now.
AgeTicks == IF "created_at" \in DOMAIN blog THEN eng_now - blog.created_at.ticks ELSE 0

HasDatetime == "created_at" \in DOMAIN blog => blog.created_at.type = "datetime"

\* 0.20 for a published blog, and min(likes_count * 0.01, 0.30).
PublishedPart == IF "published" \in DOMAIN blog /\ blog.published THEN 20 * Hundredth ELSE 0
LikesOfBlog == IF "likes_count" \in DOMAIN blog THEN blog.likes_count ELSE 0
PopularityPart ==
    IF LikesOfBlog * Hundredth < 30 * Hundredth THEN LikesOfBlog * Hundredth ELSE 30 * Hundredth

\* C6: engagement_score is additive and capped: it equals min(recency_bonus
\* + (0.20 if published else 0) + min(likes_count * 0.01, 0.30), 1.0); a
\* published blog created now with 50 likes scores exactly 0.80.
C6_EngagementAdditive ==
    EngScored =>
        LET recency_bonus == RecencyBonus(Get(blog, "created_at", Datetime(eng_now)), eng_now)
            sum == recency_bonus + PublishedPart + PopularityPart
        IN  /\ eng_score = IF sum < Scale THEN sum ELSE Scale
            /\ (/\ DOMAIN blog = {"created_at", "published", "likes_count"}
                /\ blog.created_at = Datetime(eng_now)
                /\ blog.published
                /\ blog.likes_count = 50)
                  => eng_score = 80 * Hundredth

\* The spec's scenario: published, created now, 50 likes, score 0.80.
C6_Witness ==
    /\ EngScored
    /\ DOMAIN blog = {"created_at", "published", "likes_count"}
    /\ blog.created_at = Datetime(eng_now)
    /\ blog.published
    /\ blog.likes_count = 50
    /\ eng_score = 80 * Hundredth

\* C7: the recency bonus depends only on the age in days since created_at:
\* 0.30 below 1 day, 0.20 from 1 to below 7 days, 0.10 from 7 to below 30
\* days, 0 otherwise (also for a created_at that is no datetime); a blog
\* without created_at counts as created now and gets 0.30.
C7_RecencyBonus ==
    EngScored =>
        LET bonus == eng_score - PublishedPart - PopularityPart
        IN  bonus = IF ~HasDatetime THEN 0
                    ELSE IF AgeTicks < TicksPerDay THEN 30 * Hundredth
                    ELSE IF AgeTicks < 7 * TicksPerDay THEN 20 * Hundredth
                    ELSE IF AgeTicks < 30 * TicksPerDay THEN 10 * Hundredth
                    ELSE 0

\* A blog exactly 7 days old gets 0.10, not 0.20.
C7_Witness ==
    /\ EngScored
    /\ "created_at" \in DOMAIN blog
    /\ blog.created_at = Datetime(eng_now - 7 * TicksPerDay)
    /\ eng_score - PublishedPart - PopularityPart = 10 * Hundredth

\* C8: engagement_score never exceeds 1.0, whatever created_at, published
\* and likes_count are.
C8_EngagementAtMostOne == EngScored => eng_score <= Scale

\* A blog whose three uncapped contributions would add up to more than 1.0.
C8_Witness ==
    /\ EngScored
    /\ HasDatetime /\ AgeTicks < TicksPerDay
    /\ PublishedPart = 20 * Hundredth
    /\ LikesOfBlog > 50
    /\ eng_score <= Scale

\* C9: engagement_score is non-decreasing in likes_count with the other
\* fields fixed: the score at the likes_count of the first call is at most
\* the score at any later, larger likes_count; from 30 likes on the
\* popularity contribution stays 0.30.
C9_MonotoneInLikes ==
    EngScored =>
        /\ eng_first.set
        /\ eng_first.likes_count <= LikesOfBlog => eng_first.score <= eng_score
        /\ LikesOfBlog >= 30 =>
              eng_score = RecencyBonus(Get(blog, "created_at", Datetime(eng_now)), eng_now)
                          + PublishedBonus(Get(blog, "published", FALSE)) + 30 * Hundredth

\* A blog first scored below the cap and scored again above it.
C9_Witness ==
    /\ EngScored
    /\ eng_first.set
    /\ eng_first.likes_count < 30
    /\ LikesOfBlog > 30
    /\ eng_first.score < eng_score
    /\ eng_score = eng_first.score + (30 - eng_first.likes_count) * Hundredth

----------------------------------------------------------------------------
(* Properties of the content similarity (specification SpecSimilarity) *)

\* C10: content_similarity returns exactly 0.0 whenever the interest profile
\* is empty, for every blog content, title and tags.
C10_EmptyProfileIsZero ==
    (sim_pc \in {"returned", "raised"} /\ sim_args.user_interests = <<>>) =>
        /\ sim_pc = "returned"
        /\ sim_result = Returned(0)

\* An empty profile against a blog with text, and against one whose tags are
\* null.
C10_Witness ==
    /\ sim_pc = "returned"
    /\ sim_args.user_interests = <<>>
    /\ sim_args.blog_title = TxtTips
    /\ sim_args.blog_content = TxtLearn
    /\ sim_args.blog_tags = None
    /\ sim_result = Returned(0)

SimFinished == sim_pc \in {"returned", "raised"}

\* Every word left after the non-letters are deleted is a stop word or at
\* most two characters long.
OnlyNoise(text) ==
    \A w \in ToSet(split(StripNonLetters(lower(text)))) : w \in stop_words \/ Len(w) <= 2

\* The joined interests and the combined blog text of the call, its tags
\* being a list.
JoinedInterests == join(Space, sim_args.user_interests)
CombinedBlogText ==
    BlogDocument(sim_args.blog_content, sim_args.blog_title, TheValue(sim_args.blog_tags))

\* C11: with a profile and a list of tags, content_similarity returns 0.0
\* whenever the joined interests or the combined blog text consist only of
\* stop words, words of at most two letters and non-letters, and it returns
\* through the empty-document test, before any vectorization.
C11_EmptyDocumentIsZero ==
    (/\ SimFinished
     /\ sim_args.user_interests # <<>>
     /\ sim_args.blog_tags # None
     /\ OnlyNoise(JoinedInterests) \/ OnlyNoise(CombinedBlogText)) =>
        /\ sim_pc = "returned"
        /\ sim_result = Returned(0)
        /\ sim_via = "empty_document"

\* The profile "C++ now" cleans to nothing; the blog has text.
C11_Witness ==
    /\ sim_pc = "returned"
    /\ sim_args.user_interests = <<IntCpp>>
    /\ sim_args.blog_title = TxtTips
    /\ sim_args.blog_tags = Some(<<TagTravel, TagFood>>)
    /\ ~OnlyNoise(CombinedBlogText)
    /\ sim_via = "empty_document"
    /\ sim_result = Returned(0)

\* C12: for a non-empty profile and any title, content and list of tags,
\* content_similarity returns a value in [0, 1], through the cosine and
\* through the fallback.
C12_SimilarityInUnitInterval ==
    (SimFinished /\ sim_args.user_interests # <<>> /\ sim_args.blog_tags # None) =>
        /\ sim_pc = "returned"
        /\ 0 <= sim_result.value /\ sim_result.value <= Scale

\* The fallback returns 1.0 for a blog whose cleaned text repeats the one word
\* of the profile.
C12_Witness ==
    /\ sim_pc = "returned"
    /\ sim_args.user_interests = <<IntTravel, IntTravel>>
    /\ sim_args.blog_title = TxtTravel
    /\ sim_args.blog_content = TxtDigits
    /\ sim_args.blog_tags = Some(<<>>)
    /\ sim_via = "fallback"
    /\ sim_result = Returned(Scale)

OverlapRatio(blog_words, interest_words) ==
    IF interest_words = {} THEN 0
    ELSE (Cardinality(blog_words \cap interest_words) * Scale) \div Cardinality(interest_words)

\* The whitespace-split lowercase words of the raw joined interests.
RawInterestWords == ToSet(split(lower(JoinedInterests)))

\* C15: when vectorization fails, content_similarity does not raise and
\* returns |blog_words & interest_words| / |interest_words|, blog_words being
\* the words of the cleaned blog document and interest_words the lowercase
\* words of the raw joined interests; the fallback called on its own returns
\* the same ratio of its text's lowercase words, and 0.0 without interest
\* words.
C15_FallbackOverlapRatio ==
    /\ (/\ SimFinished
        /\ sim_args.user_interests # <<>>
        /\ sim_args.blog_tags # None
        /\ ~OnlyNoise(JoinedInterests) /\ ~OnlyNoise(CombinedBlogText)
        /\ FitTransform(<<preprocess_text(JoinedInterests),
                          preprocess_text(CombinedBlogText)>>).raised) =>
           /\ sim_pc = "returned"
           /\ sim_via = "fallback"
           /\ sim_result.value = OverlapRatio(ToSet(split(preprocess_text(CombinedBlogText))),
                                              RawInterestWords)
    /\ sim_keyword # None =>
           /\ TheValue(sim_keyword) = OverlapRatio(ToSet(split(lower(sim_args.blog_title))),
                                                   RawInterestWords)
           /\ RawInterestWords = {} => TheValue(sim_keyword) = 0

\* The profile ["Travel!", "travel"] against the blog "Travel": nothing is
\* left after pruning, and of the raw words "travel!" and "travel" one is in
\* the blog, 0.5.
C15_Witness ==
    /\ sim_pc = "returned"
    /\ sim_args.user_interests = <<IntTravelBang, IntTravel>>
    /\ sim_args.blog_title = TxtTravel
    /\ sim_args.blog_content = TxtDigits
    /\ sim_args.blog_tags = Some(<<>>)
    /\ sim_via = "fallback"
    /\ sim_result = Returned(50 * Hundredth)
    /\ sim_keyword = Some(50 * Hundredth)

----------------------------------------------------------------------------
(* Properties of the normalizer (specification SpecNormalizer) *)

\* C16: the normalizer is idempotent: normalize(normalize(x)) = normalize(x)
\* for every string x.
C16_NormalizerIdempotent ==
    norm_pc = "twice" => norm_again = norm_out

\* A text the first call changes and the second leaves alone.
C16_Witness ==
    /\ norm_pc = "twice"
    /\ norm_input = PyStr(TxtSpaced)
    /\ norm_out = <<"q","u","i","c","k"," ","b","r","o","w","n","f","o","x">>
    /\ norm_again = norm_out

\* The words of a text between single spaces.
WordsBetweenSpaces(text) == ToSet(Fields(text, {" "}))

\* C17: for every input string the normalizer's output is words joined by
\* exactly one space, without leading or trailing space, every word made of
\* lowercase Latin letters only, at least 3 long and no stop word; it is the
\* empty string when no word survives.
C17_NormalizerOutputForm ==
    (norm_pc \in {"once", "twice"} /\ norm_input.type = "str") =>
        /\ OnlyNoise(norm_input.text) => norm_out = <<>>
        /\ ~OnlyNoise(norm_input.text) => norm_out # <<>>
        /\ norm_out # <<>> =>
              /\ \A i \in 1..Len(norm_out) :
                    \/ norm_out[i] = " " /\ 1 < i /\ i < Len(norm_out) /\ norm_out[i + 1] # " "
                    \/ \E k \in 1..Len(LowerLetters) : norm_out[i] = LowerLetters[k]
              /\ \A w \in WordsBetweenSpaces(norm_out) : Len(w) >= 3 /\ w \notin stop_words

\* "Learn to cook while traveling the world" loses "to" and "the".
C17_Witness ==
    /\ norm_pc = "once"
    /\ norm_input = PyStr(TxtLearn)
    /\ Len(norm_out) = Len(TxtLearn) - 7
    /\ Cardinality(WordsBetweenSpaces(norm_out)) = 5

\* C18: a value that is no string (None, a number, a list) is treated as
\* empty: the normalizer returns the empty string and does not raise.
C18_NonStringIsEmpty ==
    (norm_pc # "pending" /\ norm_input.type # "str") =>
        /\ norm_pc # "raised"
        /\ norm_out = <<>>

----------------------------------------------------------------------------
(* Properties of repeated scoring (specification SpecPurity) *)

----------------------------------------------------------------------------
(* Error handling of the ranking (specification Spec) *)

\* C19: a ranking pass never aborts because of one bad record: no exception
\* leaves the handler, and every blog that was fetched, a blog with null
\* tags included, is scored and counted in the result.
C19_NoAbortOnBadRecord ==
    /\ pc # "raised"
    /\ Ranked => /\ Len(recommendations) = Len(all_blogs)
                 /\ result.total_count = Len(all_blogs)

\* C20: a blog whose author lookup finds no user is still ranked, and its
\* username in the result is "Unknown", in the service ranking and in the
\* search endpoint.
C20_UnknownAuthor ==
    /\ \A i \in 1..Len(recommendations) :
          FindUser(recommendations[i].blog.user_id) = None
             => recommendations[i].blog.username = "Unknown"
    /\ Ranked => \A k \in 1..Len(all_blogs) :
                    \E i \in 1..Len(recommendations) :
                        recommendations[i].blog.id = all_blogs[k].id

\* The caller of a search has no profile: no credentials, a token that does
\* not verify, a token of no stored user, or no user_interests document.
NoProfile ==
    \/ params.credentials = None
    \/ verify_token(TheValue(params.credentials)) = None
    \/ TheValue(verify_token(TheValue(params.credentials))) \notin DOMAIN db_users
    \/ db_user_interests = None

\* C21: a missing interests lookup is an empty profile: a search by an
\* unauthenticated caller, by a caller with an invalid token or by a user
\* without an interests record completes without error, and the total of
\* every result equals its engagement_score.
C21_NoProfileIsEngagementOnly ==
    (path = "search" /\ NoProfile) =>
        /\ pc # "raised"
        /\ pc \in {"score", "done"} =>
              /\ req_interests = <<>>
              /\ \A i \in 1..Len(recommendations) :
                    recommendations[i].relevance_score
                        = calculate_engagement_score(DocOf(recommendations[i]),
                                                     recommendations[i].locals.now)

\* C22: ranking and scoring are read-only: no step of a ranking or search
\* request changes a stored document; the blogs and user_interests
\* collections are after every step what they were before it.
C22_RankingIsReadOnly ==
    [][db_blogs' = db_blogs /\ db_user_interests' = db_user_interests]_vars

\* A search by a signed-in user without an interests document has ranked
\* three stored blogs.
C22_Witness ==
    /\ Ranked
    /\ path = "search"
    /\ params.current_user # None
    /\ db_user_interests = None
    /\ Len(db_blogs) = 3
    /\ result.total_count = 3

----------------------------------------------------------------------------
(* The feature space of a call (specification SpecSimilarity) *)

\* The call built the vectorizer: it left through the cosine or the fallback.
Vectorized == sim_via \in {"cosine", "fallback"}

\* The words of the cleaned user document and of the cleaned blog document.
UserWords == Tokens(preprocess_text(JoinedInterests))
BlogWords == Tokens(preprocess_text(CombinedBlogText))

\* The unigrams and bigrams both documents hold, and the feature space.
SharedTerms == Terms(UserWords) \cap Terms(BlogWords)
FeatureSpace == LimitFeatures(Terms(UserWords) \cup Terms(BlogWords), <<UserWords, BlogWords>>)

\* C24: in the corpus of the two cleaned documents every unigram or bigram
\* that occurs in both is excluded from the feature space by max_df = 0.8;
\* the features are the terms of exactly one of the documents.
C24_SharedTermsExcluded ==
    Vectorized =>
        /\ SharedTerms \cap FeatureSpace = {}
        /\ FeatureSpace = (Terms(UserWords) \cup Terms(BlogWords)) \ SharedTerms

\* The profile "travel travel" against "Travel Cooking Tips": the word
\* "travel" is in both and is no feature, the bigram "travel travel" is one.
C24_Witness ==
    /\ sim_pc = "returned"
    /\ sim_via = "cosine"
    /\ sim_args.user_interests = <<IntTravel, IntTravel>>
    /\ sim_args.blog_title = TxtTips
    /\ <<TagTravel>> \in SharedTerms
    /\ <<TagTravel>> \notin FeatureSpace
    /\ <<TagTravel, TagTravel>> \in FeatureSpace

\* C26: whenever vectorization succeeds the two tf-idf rows have disjoint
\* support and content_similarity returns 0.0; a similarity above 0 comes
\* from the fallback only, and the fallback is reached only when every
\* unigram and bigram of the pair is in both documents.
C26_CosineIsAlwaysZero ==
    (SimFinished /\ sim_args.blog_tags # None) =>
        /\ sim_via = "cosine" =>
              /\ sim_result = Returned(0)
              /\ \A t \in FeatureSpace :
                    TermCount(t, UserWords) = 0 \/ TermCount(t, BlogWords) = 0
        /\ sim_result.value > 0 => sim_via = "fallback"
        /\ sim_via = "fallback" => Terms(UserWords) = Terms(BlogWords)

\* The spec's scenario goes through the cosine and scores 0.0, though
\* "cooking" and "travel" are in both documents.
C26_Witness ==
    /\ sim_pc = "returned"
    /\ sim_via = "cosine"
    /\ sim_args.user_interests = <<IntCooking, IntTravel>>
    /\ sim_args.blog_title = TxtTips
    /\ sim_args.blog_content = TxtLearn
    /\ sim_args.blog_tags = Some(<<TagTravel, TagFood>>)
    /\ Cardinality(SharedTerms) = 2
    /\ sim_result = Returned(0)

----------------------------------------------------------------------------
(* Fused tokens (specification SpecNormalizer) *)

\* The whitespace-delimited pieces of the input, each in lower case with
\* its non-letters deleted.
FusedWords ==
    LET pieces == split(norm_input.text)
    IN  [k \in 1..Len(pieces) |-> StripNonLetters(lower(pieces[k]))]

\* C25: the normalizer deletes the non-letters before it splits and puts no
\* separator in their place, so the letters on both sides of a deleted digit
\* or punctuation mark are one token ("COVID-19" gives "covid",
\* "state-of-art" gives "stateofart"), and the stop-word and length filters
\* see the fused token.
C25_NonLettersFuseTokens ==
    (norm_pc \in {"once", "twice"} /\ norm_input.type = "str") =>
        /\ norm_out = join(Space, SelectSeq(FusedWords,
                                            LAMBDA w : w \notin stop_words /\ Len(w) > 2))
        /\ norm_input.text = TxtCovid => norm_out = <<"c","o","v","i","d">>
        /\ norm_input.text = TxtArt => norm_out = <<"s","t","a","t","e","o","f","a","r","t">>

\* "state-of-art" has become the one token "stateofart".
C25_Witness ==
    /\ norm_pc = "once"
    /\ norm_input = PyStr(TxtArt)
    /\ norm_out = <<"s","t","a","t","e","o","f","a","r","t">>

----------------------------------------------------------------------------
(* The two ranking implementations (specification Spec) *)

\* What the other implementation's loop makes of the blog at place k of the
\* fetched list, at the clock value this request scored it.
OtherItem(k) ==
    LET rec == recommendations[CHOOSE i \in 1..Len(recommendations) :
                                  InputIndex(recommendations[i].blog.id) = k]
    IN  IF path = "service"
        THEN SearchScoreBlog(all_blogs[k], req_interests, rec.locals.now)
        ELSE ServiceScoreBlog(all_blogs[k], req_interests, rec.locals.now)

\* The other implementation's sorted list for the same blogs.
OtherRanking == SortByRelevance([k \in 1..Len(all_blogs) |-> TheValue(OtherItem(k))])

\* The blogs of a page.
PageBlogs(recs, page, page_size) ==
    LET slice == Paginate(recs, page, page_size)
    IN  [i \in 1..Len(slice) |-> slice[i].blog]

\* C27: for the same list of blogs, the same interests and the same clock,
\* the loop of search_blogs and get_all_blogs_sorted_by_interest give every
\* blog the same relevance score and produce the same order and the same
\* page contents, for every page and page_size.
C27_ImplementationsAgree ==
    Ranked =>
        LET other == OtherRanking
        IN  /\ \A i \in 1..Len(recommendations) :
                  /\ other[i].relevance_score = recommendations[i].relevance_score
                  /\ other[i].blog.id = recommendations[i].blog.id
            /\ \A page \in 1..MaxPage, page_size \in 1..MaxPageSize :
                  PageBlogs(other, page, page_size)
                     = PageBlogs(recommendations, page, page_size)

----------------------------------------------------------------------------
(* Concurrent requests (specification SpecConcurrent) *)

\* What request r, run alone, makes of a blog of the list it fetched.
AloneItem(r, doc) ==
    IF RequestPath(r) = "service"
    THEN ServiceScoreBlog(doc, conc_req[r].interests, Today)
    ELSE SearchScoreBlog(doc, conc_req[r].interests, Today)

\* The place of a ranked blog in the list request r fetched.
FetchedIndex(r, id) ==
    CHOOSE k \in 1..Len(conc_req[r].all_blogs) : conc_req[r].all_blogs[k].id = id

\* C23: concurrent requests do not interfere.  Whatever requests and writes
\* ran in between, a finished request has ranked exactly the blogs it
\* fetched, each with the score computed from the fetched record and the
\* request's own interests, in the stable descending order of those scores.
C23_RequestsDoNotInterfere ==
    \A r \in DOMAIN conc_req :
        conc_req[r].pc = "done" =>
            LET recs == conc_req[r].recommendations
                fetched == conc_req[r].all_blogs
            IN  /\ Len(recs) = Len(fetched)
                /\ \A k \in 1..Len(fetched) :
                      Cardinality({i \in 1..Len(recs) : recs[i].blog.id = fetched[k].id}) = 1
                /\ \A i \in 1..Len(recs) :
                      Some(recs[i]) = AloneItem(r, fetched[FetchedIndex(r, recs[i].blog.id)])
                /\ \A i, j \in 1..Len(recs) :
                      i < j =>
                         \/ recs[i].relevance_score > recs[j].relevance_score
                         \/ /\ recs[i].relevance_score = recs[j].relevance_score
                            /\ FetchedIndex(r, recs[i].blog.id) < FetchedIndex(r, recs[j].blog.id)
                /\ conc_req[r].result = Paginate(recs, 1, MaxPageSize)

\* The service ranking has finished with two blogs, one of which gained a
\* like after it was fetched, while the search is in its loop.
C23_Witness ==
    /\ conc_req[1].pc = "done"
    /\ Len(conc_req[1].recommendations) = 2
    /\ conc_writes > 0
    /\ \E k \in 1..2 :
          /\ k <= Len(conc_db)
          /\ conc_db[k].id = conc_req[1].all_blogs[k].id
          /\ conc_db[k].likes_count > conc_req[1].all_blogs[k].likes_count
    /\ conc_req[2].pc = "score"
    /\ Len(conc_req[2].recommendations) = 1

----------------------------------------------------------------------------
(* Likes (specification SpecLikes) *)

LikesQuiescent == \A r \in DOMAIN like_req : like_req[r].pc \in {"done", "not_found"}

\* C28: likes_count is never negative, and once no like request is in
\* flight it equals the number of like documents of the blog.
C28_CounterMatchesLikes ==
    /\ blog_likes_count >= 0
    /\ LikesQuiescent /\ like_req # <<>> => blog_likes_count = Cardinality(like_docs)

\* C29: in every state there is at most one like document per user for the
\* blog.
C29_OneLikePerUser ==
    \A user \in LikeUsers : Cardinality({d \in like_docs : d.user_id = user}) <= 1

----------------------------------------------------------------------------
(* Refresh tokens (specification SpecAuth) *)

\* C30: refresh tokens are rotated and single-use.  A /refresh that is
\* accepted presented a token that no earlier successful /refresh had
\* presented, that was the user's most recently issued one, and the user
\* had not logged out since the last login.
C30_RefreshTokensSingleUse ==
    \A r \in DOMAIN auth_req :
        auth_req[r].pc \in {"update", "accepted"} =>
            /\ ~auth_req[r].spent
            /\ auth_req[r].latest
            /\ ~auth_req[r].logged_out

====
